---------------------------- MODULE Spec2Model ----------------------------
(***************************************************************************)
(* A model of slurm_util (src/src/slurm_util): the `submit` entry point    *)
(* (main, get_cluster, get_job_nodes, print_ssh_info, wait_for_job) as a   *)
(* state machine, and its pure helpers (trim_whitespace, format_in_box,    *)
(* resource_alloc, get_ssh_port) as operators.                             *)
(*                                                                         *)
(* Python strings are sequences of one-character strings, so that strip,   *)
(* split, `in` and re.search are computed and not assumed.  Python's None  *)
(* is the one-element sequence <<"None">>, which no text equals because    *)
(* every element of a text is a single character.                         *)
(***************************************************************************)
EXTENDS Integers, Sequences, FiniteSets, TLC

(***************************************************************************)
(* Text primitives (the str methods and re calls the program uses)         *)
(***************************************************************************)

None == <<"None">>

Whitespace == {" ", "\n", "\t", "\r"}

Digits == {"0", "1", "2", "3", "4", "5", "6", "7", "8", "9"}

SetMin(S) == CHOOSE x \in S : \A y \in S : x <= y

SetMax(S) == CHOOSE x \in S : \A y \in S : x >= y

\* str.strip(): the text without its leading and trailing whitespace
Strip(s) ==
    LET keep == {i \in 1..Len(s) : s[i] \notin Whitespace}
    IN  IF keep = {} THEN <<>> ELSE SubSeq(s, SetMin(keep), SetMax(keep))

\* str.split(sep) for a one-character separator: always at least one piece
RECURSIVE Split(_, _)
Split(s, sep) ==
    LET at == {i \in 1..Len(s) : s[i] = sep}
    IN  IF at = {} THEN <<s>>
        ELSE LET i == SetMin(at)
             IN  <<SubSeq(s, 1, i - 1)>> \o Split(SubSeq(s, i + 1, Len(s)), sep)

\* sep.join(parts)
RECURSIVE Join(_, _)
Join(parts, sep) ==
    IF parts = <<>> THEN <<>>
    ELSE IF Len(parts) = 1 THEN parts[1]
    ELSE parts[1] \o sep \o Join(Tail(parts), sep)

\* `sub in s`: substring test
Contains(s, sub) ==
    \E i \in 1..(Len(s) - Len(sub) + 1) : SubSeq(s, i, i + Len(sub) - 1) = sub

\* the positions where sub occurs in s
Occurrences(s, sub) ==
    {i \in 1..(Len(s) - Len(sub) + 1) : SubSeq(s, i, i + Len(sub) - 1) = sub}

\* the regex character classes the program uses: "d" is \d, "S" is \S
InClass(c, class) == IF class = "d" THEN c \in Digits ELSE c \notin Whitespace

\* the longest run of characters of the class in s from position i on
RunFrom(s, i, class) ==
    LET stop == {j \in i..Len(s) : ~InClass(s[j], class)}
    IN  SubSeq(s, i, IF stop = {} THEN Len(s) ELSE SetMin(stop) - 1)

\* re.search(lit + "(<class>+)", s).group(1), or None: the leftmost occurrence
\* of lit that is followed by a character of the class, and the greedy run
ReSearchGroup(s, lit, class) ==
    LET hits == {i \in Occurrences(s, lit) :
                    i + Len(lit) <= Len(s) /\ InClass(s[i + Len(lit)], class)}
    IN  IF hits = {} THEN None ELSE RunFrom(s, SetMin(hits) + Len(lit), class)

\* int(s) for a text of decimal digits
DigitValue(c) ==
    CASE c = "0" -> 0 [] c = "1" -> 1 [] c = "2" -> 2 [] c = "3" -> 3
      [] c = "4" -> 4 [] c = "5" -> 5 [] c = "6" -> 6 [] c = "7" -> 7
      [] c = "8" -> 8 [] c = "9" -> 9

RECURSIVE ParseInt(_)
ParseInt(s) ==
    IF s = <<>> THEN 0
    ELSE 10 * ParseInt(SubSeq(s, 1, Len(s) - 1)) + DigitValue(s[Len(s)])

\* str(n) for n >= 0, as an f-string renders an int
DigitChar(d) ==
    CASE d = 0 -> "0" [] d = 1 -> "1" [] d = 2 -> "2" [] d = 3 -> "3"
      [] d = 4 -> "4" [] d = 5 -> "5" [] d = 6 -> "6" [] d = 7 -> "7"
      [] d = 8 -> "8" [] d = 9 -> "9"

RECURSIVE IntToStr(_)
IntToStr(n) ==
    IF n < 10 THEN <<DigitChar(n)>>
    ELSE IntToStr(n \div 10) \o <<DigitChar(n % 10)>>

\* trim_whitespace(s): strip every line, drop the empty ones, join with "\n"
trim_whitespace(s) ==
    LET lines == Split(s, "\n")
        kept  == SelectSeq([i \in 1..Len(lines) |-> Strip(lines[i])],
                           LAMBDA l : l # <<>>)
    IN  Join(kept, <<"\n">>)

(***************************************************************************)
(* format_in_box                                                           *)
(***************************************************************************)

\* the box-drawing characters, each one character of the output: the corners
\* (top left, top right, bottom left, bottom right), the horizontal and the
\* vertical bar
BoxChar ==
    [tl |-> "TL", tr |-> "TR", bl |-> "BL", br |-> "BR", h |-> "H", v |-> "V"]

\* c * n
Rep(c, n) == [i \in 1..n |-> c]

\* f"{line:<{line_width}}": blanks added on the right up to the width
PadRight(line, w) ==
    IF Len(line) < w THEN line \o Rep(" ", w - Len(line)) ELSE line

\* f"| {line:<{line_width}} |", one boxed line
BoxRow(line, w) ==
    <<BoxChar.v, " ">> \o PadRight(line, w) \o <<" ", BoxChar.v>>

\* a bug WrapLong could have: the part left after the last full segment is
\* dropped
RECURSIVE WrapLong_noRemainder(_, _)
WrapLong_noRemainder(line, w) ==
    IF Len(line) > w
    THEN <<BoxRow(SubSeq(line, 1, w), w)>>
            \o WrapLong_noRemainder(SubSeq(line, w + 1, Len(line)), w)
    ELSE <<>>

\* format_in_box: the `while len(line) > line_width` loop and the `if line`
\* after it
RECURSIVE WrapLong(_, _)
WrapLong(line, w) ==
    IF Len(line) > w
    THEN <<BoxRow(SubSeq(line, 1, w), w)>>
            \o WrapLong(SubSeq(line, w + 1, Len(line)), w)
    ELSE IF line # <<>> THEN <<BoxRow(line, w)>> ELSE <<>>

\* format_in_box: the boxed lines of one line of the text
BoxLine(line, w) ==
    IF Len(line) <= w THEN <<BoxRow(line, w)>> ELSE WrapLong(line, w)

\* the boxed lines of the lines ls, in order
RECURSIVE BoxLines(_, _)
BoxLines(ls, w) ==
    IF ls = <<>> THEN <<>> ELSE BoxLine(Head(ls), w) \o BoxLines(Tail(ls), w)

\* format_in_box(text, line_width)
format_in_box(text, line_width) ==
    LET box_width == line_width + 2
        top    == <<BoxChar.tl>> \o Rep(BoxChar.h, box_width) \o <<BoxChar.tr>>
        bottom == <<BoxChar.bl>> \o Rep(BoxChar.h, box_width) \o <<BoxChar.br>>
    IN  Join(<<top>> \o BoxLines(Split(Strip(text), "\n"), line_width)
                \o <<bottom>>, <<"\n">>)

\* line_width=76, the default of format_in_box
DefaultLineWidth == 76

(***************************************************************************)
(* Literals of the program                                                 *)
(***************************************************************************)

NL == <<"\n">>

\* the cluster names get_cluster knows
ClusterName ==
    [ alvis |-> <<"a", "l", "v", "i", "s">>,
      berzelius |-> <<"b", "e", "r", "z", "e", "l", "i", "u", "s">> ]

\* the texts resource_alloc is built from (the CPU-only device is "NOGPU" in
\* submit.py and "cpu" in utils.py)
AllocText ==
    [ NOGPU |-> <<"N", "O", "G", "P", "U">>,
      cpu |-> <<"c", "p", "u">>,
      GB80 |-> <<"8", "0", "G", "B">>,
      GB40 |-> <<"4", "0", "G", "B">>,
      g10 |-> <<"1", "g", ".", "1", "0", "g", "b">>,
      d100_80 |-> <<"1", "0", "0", ":", "8", "0", "G", "B">>,
      d100_40 |-> <<"1", "0", "0", ":", "4", "0", "G", "B">>,
      dA100_10 |-> <<"A", "1", "0", "0", ":", "1", "0", "G", "B">>,
      SBATCH |-> <<"#", "S", "B", "A", "T", "C", "H", " ">>,
      gpus_per_node |-> <<"-", "-", "g", "p", "u", "s", "-", "p", "e", "r",
          "-", "n", "o", "d", "e", " ">>,
      C_NOGPU |-> <<"-", "C", " ", "N", "O", "G", "P", "U">>,
      cpus_per_task |-> <<"-", "-", "c", "p", "u", "s", "-", "p", "e", "r",
          "-", "t", "a", "s", "k", " ">>,
      cpus_per_gpu |-> <<"-", "-", "c", "p", "u", "s", "-", "p", "e", "r",
          "-", "g", "p", "u", " ">>,
      nodes |-> <<"-", "-", "n", "o", "d", "e", "s", " ">>,
      partition |-> <<"-", "-", "p", "a", "r", "t", "i", "t", "i", "o",
          "n", "=", "b", "e", "r", "z", "e", "l", "i", "u", "s", "-", "c",
          "p", "u">>,
      C_fat |-> <<"-", "C", " ", "f", "a", "t">>,
      C_thin |-> <<"-", "C", " ", "t", "h", "i", "n">>,
      reservation |-> <<"-", "-", "r", "e", "s", "e", "r", "v", "a", "t",
          "i", "o", "n", "=", "1", "g", ".", "1", "0", "g", "b">>,
      indent |-> <<" ", " ", " ", " ", " ", " ", " ", " ", " ", " ", " ",
          " ">>,
      tail |-> <<" ", " ", " ", " ", " ", " ", " ", " ", " ", " ", " ",
          " ", " ", " ", " ", " ">> ]

\* the texts main, get_job_nodes and wait_for_job look for in the output of
\* the scheduler's tools
PollText ==
    [ Submitted |-> <<"S", "u", "b", "m", "i", "t", "t", "e", "d", " ",
          "b", "a", "t", "c", "h", " ", "j", "o", "b", " ">>,
      null |-> <<"(", "n", "u", "l", "l", ")">>,
      NA |-> <<"N", "/", "A">>,
      NodeList |-> <<"N", "o", "d", "e", "L", "i", "s", "t", "=">>,
      COMPLETED |-> <<"C", "O", "M", "P", "L", "E", "T", "E", "D">>,
      FAILED |-> <<"F", "A", "I", "L", "E", "D">>,
      CANCELLED |-> <<"C", "A", "N", "C", "E", "L", "L", "E", "D">> ]


(***************************************************************************)
(* Cluster profiles: Alvis and Berzelius                                   *)
(***************************************************************************)

\* what an operator yields where the Python expression raises ZeroDivisionError
ZeroDivisionError == <<"ZeroDivisionError">>

\* the f-string template of three lines that resource_alloc trims
AllocTemplate(l1, l2, l3) ==
    NL \o AllocText.indent \o l1 \o NL \o AllocText.indent \o l2
       \o NL \o AllocText.indent \o l3 \o NL \o AllocText.tail

\* Alvis.resource_alloc of submit.py
Alvis_resource_alloc(gpus_per_node, gpu_model, cpus_per_node, nodes) ==
    LET gpu_alloc  == IF gpu_model # AllocText.NOGPU
                      THEN AllocText.gpus_per_node \o IntToStr(gpus_per_node)
                      ELSE AllocText.C_NOGPU
        cpu_alloc  == AllocText.cpus_per_task \o IntToStr(cpus_per_node * nodes)
        node_alloc == AllocText.nodes \o IntToStr(nodes)
    IN  trim_whitespace(AllocTemplate(AllocText.SBATCH \o gpu_alloc,
                                      AllocText.SBATCH \o cpu_alloc,
                                      AllocText.SBATCH \o node_alloc))

\* Berzelius.resource_alloc of submit.py; cpus_per_node // gpus_per_node is
\* evaluated only for a device other than "NOGPU", and raises for 0 GPUs
Berzelius_resource_alloc(gpus_per_node, gpu_model, cpus_per_node, nodes) ==
    LET gpu0 == IF gpu_model # AllocText.NOGPU
                THEN AllocText.SBATCH \o AllocText.gpus_per_node
                        \o IntToStr(gpus_per_node)
                ELSE AllocText.partition
        gpu_alloc ==
            IF Contains(gpu_model, AllocText.GB80)
            THEN gpu0 \o NL \o AllocText.SBATCH \o AllocText.C_fat
            ELSE IF Contains(gpu_model, AllocText.GB40)
            THEN gpu0 \o NL \o AllocText.SBATCH \o AllocText.C_thin
            ELSE IF Contains(gpu_model, AllocText.g10)
            THEN gpu0 \o NL \o AllocText.SBATCH \o AllocText.reservation
            ELSE gpu0
        cpu_alloc ==
            IF gpu_model # AllocText.NOGPU
            THEN AllocText.SBATCH \o AllocText.cpus_per_gpu
                    \o IntToStr(cpus_per_node \div gpus_per_node)
            ELSE <<>>
        node_alloc == AllocText.SBATCH \o AllocText.nodes \o IntToStr(nodes)
    IN  IF gpu_model # AllocText.NOGPU /\ gpus_per_node = 0
        THEN ZeroDivisionError
        ELSE trim_whitespace(AllocTemplate(gpu_alloc, cpu_alloc, node_alloc))

\* Alvis.resource_alloc of utils.py
utils_Alvis_resource_alloc(gpus_per_node, device_type, cpus_per_gpu, nodes) ==
    LET gpu_alloc  == IF device_type # AllocText.cpu
                      THEN AllocText.gpus_per_node \o IntToStr(gpus_per_node)
                      ELSE AllocText.C_NOGPU
        cpu_alloc  == AllocText.cpus_per_task \o IntToStr(cpus_per_gpu * nodes)
        node_alloc == AllocText.nodes \o IntToStr(nodes)
    IN  trim_whitespace(AllocTemplate(AllocText.SBATCH \o gpu_alloc,
                                      AllocText.SBATCH \o cpu_alloc,
                                      AllocText.SBATCH \o node_alloc))

\* Berzelius.resource_alloc of utils.py
utils_Berzelius_resource_alloc(gpus_per_node, device_type, cpus_per_gpu, nodes) ==
    LET gpu0 == IF device_type # AllocText.cpu
                THEN AllocText.SBATCH \o AllocText.gpus_per_node
                        \o IntToStr(gpus_per_node)
                ELSE AllocText.partition
        gpu_alloc ==
            IF device_type = AllocText.d100_80
            THEN gpu0 \o NL \o AllocText.SBATCH \o AllocText.C_fat
            ELSE IF device_type = AllocText.d100_40
            THEN gpu0 \o NL \o AllocText.SBATCH \o AllocText.C_thin
            ELSE IF device_type = AllocText.dA100_10
            THEN gpu0 \o NL \o AllocText.SBATCH \o AllocText.reservation
            ELSE gpu0
        cpu_alloc ==
            IF device_type # AllocText.cpu
            THEN AllocText.SBATCH \o AllocText.cpus_per_gpu \o IntToStr(cpus_per_gpu)
            ELSE <<>>
        node_alloc == AllocText.SBATCH \o AllocText.nodes \o IntToStr(nodes)
    IN  trim_whitespace(AllocTemplate(gpu_alloc, cpu_alloc, node_alloc))

\* cluster.resource_alloc(...) as wrap_in_sbatch calls it
resource_alloc(cluster, gpus_per_node, gpu_model, cpus_per_node, nodes) ==
    IF cluster = "Alvis"
    THEN Alvis_resource_alloc(gpus_per_node, gpu_model, cpus_per_node, nodes)
    ELSE Berzelius_resource_alloc(gpus_per_node, gpu_model, cpus_per_node, nodes)

\* Alvis.get_ssh_port
Alvis_get_ssh_port(job_id) == 22

\* a bug Berzelius.get_ssh_port could have: the modulus spans the whole port
\* range instead of the 55000 ports above the base
Berzelius_get_ssh_port_wide(job_id) == 10000 + (ParseInt(job_id) % 65536)

\* Berzelius.get_ssh_port: 10000 + (int(job_id) % 55000)
Berzelius_get_ssh_port(job_id) == 10000 + (ParseInt(job_id) % 55000)

\* Berzelius.ssh_setup: SSH_PORT=$((10000 + $SLURM_JOB_ID % 55000)) as the
\* shell of the job evaluates it (% binds tighter than +), for the job number
\* the scheduler exports as SLURM_JOB_ID
ssh_setup_SSH_PORT(SLURM_JOB_ID) == 10000 + (SLURM_JOB_ID % 55000)

\* cluster.get_ssh_port(job_id) as print_ssh_info calls it
get_ssh_port(cluster, job_id) ==
    IF cluster = "Alvis" THEN Alvis_get_ssh_port(job_id)
    ELSE Berzelius_get_ssh_port(job_id)


\* the text Berzelius.ssh_setup gives to trim_whitespace, as written in the
\* source (with its indentation and blank lines)
ssh_setup_text ==
    <<"\n", " ", " ", " ", " ", " ", " ", " ", " ", " ", " ", " ", " ", "#",
      " ", "C", "a", "l", "c", "u", "l", "a", "t", "e", " ", "u", "n", "i",
      "q", "u", "e", " ", "S", "S", "H", " ", "p", "o", "r", "t", " ", "b",
      "a", "s", "e", "d", " ", "o", "n", " ", "j", "o", "b", " ", "I", "D",
      " ", "(", "b", "a", "s", "e", " ", "p", "o", "r", "t", " ", "1", "0",
      "0", "0", "0", " ", "+", " ", "j", "o", "b", "_", "i", "d", " ", "%",
      " ", "5", "5", "0", "0", "0", ")", "\n", " ", " ", " ", " ", " ", " ",
      " ", " ", " ", " ", " ", " ", "S", "S", "H", "_", "P", "O", "R", "T",
      "=", "$", "(", "(", "1", "0", "0", "0", "0", " ", "+", " ", "$", "S",
      "L", "U", "R", "M", "_", "J", "O", "B", "_", "I", "D", " ", "%", " ",
      "5", "5", "0", "0", "0", ")", ")", "\n", " ", " ", " ", " ", " ", " ",
      " ", " ", " ", " ", " ", " ", "J", "O", "B", "_", "S", "S", "H", "_",
      "D", "I", "R", "=", "\"", "/", "t", "m", "p", "/", "s", "l", "u", "r",
      "m", "_", "s", "s", "h", "_", "$", "S", "L", "U", "R", "M", "_", "J",
      "O", "B", "_", "I", "D", "\"", "\n", " ", " ", " ", " ", " ", " ", " ",
      " ", " ", " ", " ", " ", "\n", " ", " ", " ", " ", " ", " ", " ", " ",
      " ", " ", " ", " ", "#", " ", "C", "r", "e", "a", "t", "e", " ", "j",
      "o", "b", "-", "s", "p", "e", "c", "i", "f", "i", "c", " ", "S", "S",
      "H", " ", "d", "i", "r", "e", "c", "t", "o", "r", "y", "\n", " ", " ",
      " ", " ", " ", " ", " ", " ", " ", " ", " ", " ", "m", "k", "d", "i",
      "r", " ", "-", "p", " ", "\"", "$", "J", "O", "B", "_", "S", "S", "H",
      "_", "D", "I", "R", "\"", "\n", " ", " ", " ", " ", " ", " ", " ", " ",
      " ", " ", " ", " ", "\n", " ", " ", " ", " ", " ", " ", " ", " ", " ",
      " ", " ", " ", "#", " ", "G", "e", "n", "e", "r", "a", "t", "e", " ",
      "S", "S", "H", " ", "h", "o", "s", "t", " ", "k", "e", "y", " ", "i",
      "f", " ", "i", "t", " ", "d", "o", "e", "s", "n", "'", "t", " ", "e",
      "x", "i", "s", "t", "\n", " ", " ", " ", " ", " ", " ", " ", " ", " ",
      " ", " ", " ", "i", "f", " ", "[", " ", "!", " ", "-", "f", " ", "\"",
      "$", "J", "O", "B", "_", "S", "S", "H", "_", "D", "I", "R", "/", "s",
      "s", "h", "_", "h", "o", "s", "t", "_", "k", "e", "y", "\"", " ", "]",
      ";", " ", "t", "h", "e", "n", "\n", " ", " ", " ", " ", " ", " ", " ",
      " ", " ", " ", " ", " ", " ", " ", " ", " ", "s", "s", "h", "-", "k",
      "e", "y", "g", "e", "n", " ", "-", "t", " ", "r", "s", "a", " ", "-",
      "f", " ", "\"", "$", "J", "O", "B", "_", "S", "S", "H", "_", "D", "I",
      "R", "/", "s", "s", "h", "_", "h", "o", "s", "t", "_", "k", "e", "y",
      "\"", " ", "-", "N", " ", "'", "'", " ", "-", "q", "\n", " ", " ", " ",
      " ", " ", " ", " ", " ", " ", " ", " ", " ", "f", "i", "\n", " ", " ",
      " ", " ", " ", " ", " ", " ", " ", " ", " ", " ", "\n", " ", " ", " ",
      " ", " ", " ", " ", " ", " ", " ", " ", " ", "#", " ", "C", "r", "e",
      "a", "t", "e", " ", "s", "s", "h", "d", "_", "c", "o", "n", "f", "i",
      "g", " ", "f", "o", "r", " ", "t", "h", "i", "s", " ", "j", "o", "b",
      "\n", " ", " ", " ", " ", " ", " ", " ", " ", " ", " ", " ", " ", "c",
      "a", "t", " ", ">", " ", "\"", "$", "J", "O", "B", "_", "S", "S", "H",
      "_", "D", "I", "R", "/", "s", "s", "h", "d", "_", "c", "o", "n", "f",
      "i", "g", "\"", " ", "<", "<", " ", "E", "O", "F", "\n", "P", "o", "r",
      "t", " ", "$", "S", "S", "H", "_", "P", "O", "R", "T", "\n", "P", "i",
      "d", "F", "i", "l", "e", " ", "$", "J", "O", "B", "_", "S", "S", "H",
      "_", "D", "I", "R", "/", "s", "s", "h", "d", ".", "p", "i", "d", "\n",
      "H", "o", "s", "t", "K", "e", "y", " ", "$", "J", "O", "B", "_", "S",
      "S", "H", "_", "D", "I", "R", "/", "s", "s", "h", "_", "h", "o", "s",
      "t", "_", "k", "e", "y", "\n", "A", "u", "t", "h", "o", "r", "i", "z",
      "e", "d", "K", "e", "y", "s", "F", "i", "l", "e", " ", "~", "/", ".",
      "s", "s", "h", "/", "a", "u", "t", "h", "o", "r", "i", "z", "e", "d",
      "_", "k", "e", "y", "s", "\n", "P", "a", "s", "s", "w", "o", "r", "d",
      "A", "u", "t", "h", "e", "n", "t", "i", "c", "a", "t", "i", "o", "n",
      " ", "n", "o", "\n", "P", "u", "b", "k", "e", "y", "A", "u", "t", "h",
      "e", "n", "t", "i", "c", "a", "t", "i", "o", "n", " ", "y", "e", "s",
      "\n", "C", "h", "a", "l", "l", "e", "n", "g", "e", "R", "e", "s", "p",
      "o", "n", "s", "e", "A", "u", "t", "h", "e", "n", "t", "i", "c", "a",
      "t", "i", "o", "n", " ", "n", "o", "\n", "S", "u", "b", "s", "y", "s",
      "t", "e", "m", " ", "s", "f", "t", "p", " ", "i", "n", "t", "e", "r",
      "n", "a", "l", "-", "s", "f", "t", "p", "\n", "E", "O", "F", "\n", " ",
      " ", " ", " ", " ", " ", " ", " ", " ", " ", " ", " ", "\n", " ", " ",
      " ", " ", " ", " ", " ", " ", " ", " ", " ", " ", "#", " ", "S", "t",
      "a", "r", "t", " ", "S", "S", "H", " ", "d", "a", "e", "m", "o", "n",
      " ", "i", "n", " ", "b", "a", "c", "k", "g", "r", "o", "u", "n", "d",
      "\n", " ", " ", " ", " ", " ", " ", " ", " ", " ", " ", " ", " ", "/",
      "u", "s", "r", "/", "s", "b", "i", "n", "/", "s", "s", "h", "d", " ",
      "-", "f", " ", "\"", "$", "J", "O", "B", "_", "S", "S", "H", "_", "D",
      "I", "R", "/", "s", "s", "h", "d", "_", "c", "o", "n", "f", "i", "g",
      "\"", " ", "-", "D", " ", "&", "\n", " ", " ", " ", " ", " ", " ", " ",
      " ", " ", " ", " ", " ", "\n", " ", " ", " ", " ", " ", " ", " ", " ",
      " ", " ", " ", " ", "#", " ", "S", "t", "o", "r", "e", " ", "t", "h",
      "e", " ", "S", "S", "H", " ", "p", "o", "r", "t", " ", "f", "o", "r",
      " ", "l", "a", "t", "e", "r", " ", "u", "s", "e", "\n", " ", " ", " ",
      " ", " ", " ", " ", " ", " ", " ", " ", " ", "e", "c", "h", "o", " ",
      "\"", "$", "S", "S", "H", "_", "P", "O", "R", "T", "\"", " ", ">", " ",
      "\"", "$", "J", "O", "B", "_", "S", "S", "H", "_", "D", "I", "R", "/",
      "s", "s", "h", "_", "p", "o", "r", "t", "\"", "\n", " ", " ", " ", " ",
      " ", " ", " ", " ", " ", " ", " ", " ">>

\* Alvis.ssh_setup: alvis supports ssh by default
Alvis_ssh_setup(no_ssh) == <<>>

\* Berzelius.ssh_setup
Berzelius_ssh_setup(no_ssh) ==
    IF no_ssh THEN <<>> ELSE Strip(trim_whitespace(ssh_setup_text))

ssh_setup(cl, no_ssh) ==
    IF cl = "Alvis" THEN Alvis_ssh_setup(no_ssh) ELSE Berzelius_ssh_setup(no_ssh)

\* the fixed pieces of the script wrap_in_sbatch writes
ScriptText ==
    [shebang |->
        <<"#", "!", "/", "b", "i", "n", "/", "b", "a", "s", "h">>,
     A |-> <<"#", "S", "B", "A", "T", "C", "H", " ", "-", "A", " ">>,
     t |-> <<"#", "S", "B", "A", "T", "C", "H", " ", "-", "t", " ">>,
     o |-> <<"#", "S", "B", "A", "T", "C", "H", " ", "-", "o", " ">>,
     pctA |-> <<"/", "%", "A", ".", "o", "u", "t">>,
     interactive |->
        <<"s", "c", "r", "i", "p", "t", " ", "-", "q", "e", "c", " ", "\"",
          "t", "m", "u", "x", " ", "n", "e", "w", "-", "s", "e", "s", "s",
          "i", "o", "n", " ", "-", "s", " ", "'", "$", "S", "L", "U", "R",
          "M", "_", "J", "O", "B", "_", "I", "D", "'", "\"", " ", "/", "d",
          "e", "v", "/", "n", "u", "l", "l">>,
     batch |->
        <<"s", "c", "r", "i", "p", "t", " ", "-", "q", "e", "c", " ", "\"",
          "t", "m", "u", "x", " ", "n", "e", "w", "-", "s", "e", "s", "s",
          "i", "o", "n", " ", "-", "s", " ", "'", "$", "S", "L", "U", "R",
          "M", "_", "J", "O", "B", "_", "I", "D", "'", " ", "'", "u", "v",
          " ", "r", "u", "n", " ">>,
     tee |-> <<" ", "2", ">", "&", "1", " ", "|", " ", "t", "e", "e", " ">>,
     jobOut |->
        <<"/", "$", "S", "L", "U", "R", "M", "_", "J", "O", "B", "_", "I",
          "D", ".", "o", "u", "t">>,
     batchEnd |-> <<"'", "\"", " ", "/", "d", "e", "v", "/", "n", "u", "l", "l">>]

\* wrap_in_sbatch(...): the script text
wrap_in_sbatch(command, account, gpus_per_node, gpu_model, cpus_per_node, no_ssh, nodes, time_alloc, shell_env, interactive, stdout_path, cl) ==
    LET stdout_file == stdout_path \o ScriptText.pctA
        stdout_str == ScriptText.o \o stdout_file
        ssh_setup_str == ssh_setup(cl, no_ssh)
        alloc_str == resource_alloc(cl, gpus_per_node, gpu_model,
                                    cpus_per_node, nodes)
        command1 == IF shell_env # <<>> THEN shell_env \o <<" ">> \o command
                    ELSE command
        actual_stdout_file == stdout_path \o ScriptText.jobOut
        command2 == IF interactive THEN ScriptText.interactive
                    ELSE ScriptText.batch \o command1 \o ScriptText.tee
                         \o actual_stdout_file \o ScriptText.batchEnd
    IN  ScriptText.shebang \o <<"\n">>
        \o ScriptText.A \o account \o <<"\n">>
        \o ScriptText.t \o time_alloc \o <<"\n">>
        \o alloc_str \o <<"\n">>
        \o stdout_str \o <<"\n">>
        \o ssh_setup_str \o <<"\n">>
        \o command2 \o <<"\n">>

\* main: " ".join(config.command), config.command being a str
JoinCommand(command) ==
    Join([i \in 1..Len(command) |-> <<command[i]>>], <<" ">>)

(***************************************************************************)
(* The scheduler's tools: what each can answer                             *)
(***************************************************************************)

\* what `sacctmgr show association where user=$USER format=Cluster --noheader`
\* can print: a padded column, one line per association of the user
SacctmgrOutputs ==
      \* '     alvis \n'
    { <<" ", " ", " ", " ", " ", "a", "l", "v", "i", "s", " ", "\n">>,
      \* ' berzelius \n berzelius \n'
      <<" ", "b", "e", "r", "z", "e", "l", "i", "u", "s", " ", "\n", " ",
        "b", "e", "r", "z", "e", "l", "i", "u", "s", " ", "\n">>,
      \* 'berzelius\n'
      <<"b", "e", "r", "z", "e", "l", "i", "u", "s", "\n">>,
      \* ''
      <<>>,
      \* ' tetralith \n'
      <<" ", "t", "e", "t", "r", "a", "l", "i", "t", "h", " ", "\n">>,
      \* '     Alvis \n'
      <<" ", " ", " ", " ", " ", "A", "l", "v", "i", "s", " ", "\n">> }

\* what `sbatch` can answer: its exit status and standard output
SbatchResults ==
      \* 'Submitted batch job 7\n'
    { [returncode |-> 0, stdout |->
          <<"S", "u", "b", "m", "i", "t", "t", "e", "d", " ", "b", "a",
            "t", "c", "h", " ", "j", "o", "b", " ", "7", "\n">>],
      \* 'Submitted batch job 12345\n'
      [returncode |-> 0, stdout |->
          <<"S", "u", "b", "m", "i", "t", "t", "e", "d", " ", "b", "a",
            "t", "c", "h", " ", "j", "o", "b", " ", "1", "2", "3", "4",
            "5", "\n">>],
      \* 'sbatch: ok\nSubmitted batch job 55007 on cluster x\n'
      [returncode |-> 0, stdout |->
          <<"s", "b", "a", "t", "c", "h", ":", " ", "o", "k", "\n", "S",
            "u", "b", "m", "i", "t", "t", "e", "d", " ", "b", "a", "t",
            "c", "h", " ", "j", "o", "b", " ", "5", "5", "0", "0", "7",
            " ", "o", "n", " ", "c", "l", "u", "s", "t", "e", "r", " ",
            "x", "\n">>],
      \* 'Submitted batch job \n'
      [returncode |-> 0, stdout |->
          <<"S", "u", "b", "m", "i", "t", "t", "e", "d", " ", "b", "a",
            "t", "c", "h", " ", "j", "o", "b", " ", "\n">>],
      \* 'submitted batch job 7\n'
      [returncode |-> 0, stdout |->
          <<"s", "u", "b", "m", "i", "t", "t", "e", "d", " ", "b", "a",
            "t", "c", "h", " ", "j", "o", "b", " ", "7", "\n">>],
      \* ''
      [returncode |-> 0, stdout |->
          <<>>],
      \* ''
      [returncode |-> 1, stdout |->
          <<>>],
      \* 'Submitted batch job 7\n'
      [returncode |-> 1, stdout |->
          <<"S", "u", "b", "m", "i", "t", "t", "e", "d", " ", "b", "a",
            "t", "c", "h", " ", "j", "o", "b", " ", "7", "\n">>] }

\* what `squeue -j <id> --noheader --format=%N` can answer
SqueueNodeResults ==
      \* 'n1\n'
    { [returncode |-> 0, stdout |->
          <<"n", "1", "\n">>],
      \* 'n[1-2],m1\n'
      [returncode |-> 0, stdout |->
          <<"n", "[", "1", "-", "2", "]", ",", "m", "1", "\n">>],
      \* '(null)\n'
      [returncode |-> 0, stdout |->
          <<"(", "n", "u", "l", "l", ")", "\n">>],
      \* '\n'
      [returncode |-> 0, stdout |->
          <<"\n">>],
      \* ''
      [returncode |-> 1, stdout |->
          <<>>] }

\* what `scontrol show job <id>` can answer
ScontrolResults ==
      \* 'JobId=7 JobState=RUNNING\n   ReqNodeList=(null) ExcNodeList=(null)\n   NodeList=n2\n   BatchHost=n2\n'
    { [returncode |-> 0, stdout |->
          <<"J", "o", "b", "I", "d", "=", "7", " ", "J", "o", "b", "S",
            "t", "a", "t", "e", "=", "R", "U", "N", "N", "I", "N", "G",
            "\n", " ", " ", " ", "R", "e", "q", "N", "o", "d", "e", "L",
            "i", "s", "t", "=", "(", "n", "u", "l", "l", ")", " ", "E",
            "x", "c", "N", "o", "d", "e", "L", "i", "s", "t", "=", "(",
            "n", "u", "l", "l", ")", "\n", " ", " ", " ", "N", "o", "d",
            "e", "L", "i", "s", "t", "=", "n", "2", "\n", " ", " ", " ",
            "B", "a", "t", "c", "h", "H", "o", "s", "t", "=", "n", "2", "\n">>],
      \* 'JobId=7 JobState=PENDING\n   ReqNodeList=(null) ExcNodeList=(null)\n   NodeList=(null)\n'
      [returncode |-> 0, stdout |->
          <<"J", "o", "b", "I", "d", "=", "7", " ", "J", "o", "b", "S",
            "t", "a", "t", "e", "=", "P", "E", "N", "D", "I", "N", "G",
            "\n", " ", " ", " ", "R", "e", "q", "N", "o", "d", "e", "L",
            "i", "s", "t", "=", "(", "n", "u", "l", "l", ")", " ", "E",
            "x", "c", "N", "o", "d", "e", "L", "i", "s", "t", "=", "(",
            "n", "u", "l", "l", ")", "\n", " ", " ", " ", "N", "o", "d",
            "e", "L", "i", "s", "t", "=", "(", "n", "u", "l", "l", ")", "\n">>],
      \* 'JobId=7 JobState=PENDING\n   NodeList=\n'
      [returncode |-> 0, stdout |->
          <<"J", "o", "b", "I", "d", "=", "7", " ", "J", "o", "b", "S",
            "t", "a", "t", "e", "=", "P", "E", "N", "D", "I", "N", "G",
            "\n", " ", " ", " ", "N", "o", "d", "e", "L", "i", "s", "t",
            "=", "\n">>],
      \* '   NodeList=N/A\n'
      [returncode |-> 0, stdout |->
          <<" ", " ", " ", "N", "o", "d", "e", "L", "i", "s", "t", "=",
            "N", "/", "A", "\n">>],
      \* ''
      [returncode |-> 1, stdout |->
          <<>>] }

\* what `squeue -j <id> --noheader --format=%T` can answer
SqueueStateResults ==
      \* 'RUNNING\n'
    { [returncode |-> 0, stdout |->
          <<"R", "U", "N", "N", "I", "N", "G", "\n">>],
      \* 'PENDING\n'
      [returncode |-> 0, stdout |->
          <<"P", "E", "N", "D", "I", "N", "G", "\n">>],
      \* ''
      [returncode |-> 0, stdout |->
          <<>>],
      \* ''
      [returncode |-> 1, stdout |->
          <<>>] }

\* what `sacct -j <id> --noheader --format=State` can print: one padded line per
\* job step
SacctOutputs ==
      \* ' COMPLETED \n COMPLETED \n'
    { <<" ", "C", "O", "M", "P", "L", "E", "T", "E", "D", " ", "\n", " ",
        "C", "O", "M", "P", "L", "E", "T", "E", "D", " ", "\n">>,
      \* '    FAILED \n'
      <<" ", " ", " ", " ", "F", "A", "I", "L", "E", "D", " ", "\n">>,
      \* ' CANCELLED+ \n'
      <<" ", "C", "A", "N", "C", "E", "L", "L", "E", "D", "+", " ", "\n">>,
      \* '   TIMEOUT \n'
      <<" ", " ", " ", "T", "I", "M", "E", "O", "U", "T", " ", "\n">>,
      \* ''
      <<>>,
      \* '    FAILED \n    FAILED \n COMPLETED \n'
      <<" ", " ", " ", " ", "F", "A", "I", "L", "E", "D", " ", "\n", " ",
        " ", " ", " ", "F", "A", "I", "L", "E", "D", " ", "\n", " ", "C",
        "O", "M", "P", "L", "E", "T", "E", "D", " ", "\n">> }


(***************************************************************************)
(* Bounds of the model                                                     *)
(***************************************************************************)

\* --g takes 0..MaxGpus
MaxGpus == 1

\* the job stays in the live queue for at most MaxWaitPolls polls of wait_for_job
MaxWaitPolls == 2

\* job numbers are b * 5000 + d for b in 0..MaxJobBlock
MaxJobBlock == 24

\* format_in_box is given every text of up to MaxTextLen characters
MaxTextLen == 5

\* and every width of 1..MaxWidth
MaxWidth == 3

\* resource_alloc is given 1..MaxAllocGpus GPUs per node
MaxAllocGpus == 2

\* and 1..MaxAllocNodes nodes
MaxAllocNodes == 2

(***************************************************************************)
(* submit.py: the decisions of main, get_job_nodes, print_ssh_info and     *)
(* wait_for_job                                                            *)
(***************************************************************************)

\* max_attempts of get_job_nodes
max_attempts == 30

\* a bug SubmitFailed could have: sbatch's exit status is ignored
SubmitFailed_ignored(r) == FALSE

\* main: `if result.returncode != 0`
SubmitFailed(r) == r.returncode # 0

\* main: re.search(r"Submitted batch job (\d+)", result.stdout), group 1 or None
ExtractJobId(stdout) == ReSearchGroup(stdout, PollText.Submitted, "d")

\* a bug LoopContinues could have: one attempt too many
LoopContinues_offByOne(a) == a <= max_attempts

\* get_job_nodes: `while attempt < max_attempts`
LoopContinues(a) == a < max_attempts

\* a bug SqueueNodes could have: the placeholder test is missing
SqueueNodes_placeholder(r) ==
    IF r.returncode = 0 /\ Strip(r.stdout) # <<>> THEN Strip(r.stdout) ELSE None

\* get_job_nodes: the nodes the squeue answer gives, or None
SqueueNodes(r) ==
    IF r.returncode = 0 /\ Strip(r.stdout) # <<>>
    THEN LET n == Strip(r.stdout)
         IN  IF n # <<>> /\ n # PollText.null /\ ~Contains(n, <<"(">>)
             THEN n ELSE None
    ELSE None

\* get_job_nodes: the nodes the scontrol answer gives, or None: the first line
\* with "NodeList=" whose first match of NodeList=(\S+) is neither "(null)"
\* nor "N/A"
ScontrolNodes(r) ==
    IF r.returncode = 0
    THEN LET lines == Split(r.stdout, "\n")
             match(i) == ReSearchGroup(lines[i], PollText.NodeList, "S")
             good == {i \in 1..Len(lines) :
                         /\ Contains(lines[i], PollText.NodeList)
                         /\ match(i) # None
                         /\ match(i) # <<>>
                         /\ match(i) # PollText.null
                         /\ match(i) # PollText.NA}
         IN  IF good = {} THEN None ELSE match(SetMin(good))
    ELSE None

\* print_ssh_info: nodes.split(',')[0].split('[')[0]
FirstNode(n) == Split(Split(n, ",")[1], "[")[1]

\* print_ssh_info: what it prints
SshInfo(job, n, no_ssh, cl) ==
    IF no_ssh
    THEN [kind |-> "submitted", nodes |-> n, first_node |-> <<>>, ssh_port |-> 0]
    ELSE IF n # None /\ n # <<>>
    THEN [kind |-> "ssh_box", nodes |-> n, first_node |-> FirstNode(n),
          ssh_port |-> get_ssh_port(cl, job)]
    ELSE [kind |-> "not_available", nodes |-> n, first_node |-> <<>>,
          ssh_port |-> 0]

\* a bug WfjLoopContinues could have: a ceiling on the polls of the wait
WfjLoopContinues_ceiling(polls) == polls < 2

\* wait_for_job: the loop test of `while True:`, after polls polls
WfjLoopContinues(polls) == TRUE

\* a bug JobLeftQueue could have: the wait does not look at the answer
JobLeftQueue_always(r) == TRUE

\* wait_for_job: `status_result.returncode != 0 or not status_result.stdout.strip()`
JobLeftQueue(r) == r.returncode # 0 \/ Strip(r.stdout) = <<>>

\* wait_for_job: the result it returns for the text sacct printed
JobSucceeded(stdout) ==
    IF Contains(stdout, PollText.COMPLETED) THEN TRUE
    ELSE IF Contains(stdout, PollText.FAILED)
            \/ Contains(stdout, PollText.CANCELLED) THEN FALSE
    ELSE TRUE

\* a bug WaitExitCode could have: the result of the wait is dropped
WaitExitCode_always0(ok) == 0

\* main: `return 0 if success else 1`
WaitExitCode(ok) == IF ok THEN 0 ELSE 1

(***************************************************************************)
(* What the scheduler reported, as the claims word it                      *)
(***************************************************************************)

\* the node expression a squeue answer reports: its output when that is
\* non-empty and has no "(", else None
SqueueReports(r) ==
    IF Strip(r.stdout) # <<>> /\ ~(\E i \in 1..Len(r.stdout) : r.stdout[i] = "(")
    THEN Strip(r.stdout) ELSE None

\* the node expression a scontrol answer reports: the first NodeList value
\* other than "(null)" and "N/A", else None
ScontrolReports(r) ==
    LET lines == Split(r.stdout, "\n")
        val(i) == ReSearchGroup(lines[i], PollText.NodeList, "S")
        real == {i \in 1..Len(lines) :
                    val(i) \notin {None, PollText.null, PollText.NA}}
    IN  IF real = {} THEN None ELSE val(SetMin(real))

(***************************************************************************)
(* The run of `submit`                                                     *)
(***************************************************************************)
\* the live queue lists the job: squeue succeeds and prints a state for it
SqueueLists(r) == r.returncode = 0 /\ Strip(r.stdout) # <<>>

VARIABLES
    pc,                 \* where the run is
    config,             \* the Config tyro.cli parsed
    cluster,            \* the profile get_cluster returned
    clustr_str,         \* get_cluster: the trimmed first line of sacctmgr
                        \* (None: not read yet)
    resource_alloc_str, \* wrap_in_sbatch: the directives of the profile
    result,             \* main: what sbatch answered
    job_id,             \* main: the job identifier
    attempt,            \* get_job_nodes: attempt
    nodes,              \* main: what get_job_nodes returned
    gjnExit,            \* get_job_nodes: the statement it left by
    printed,            \* what print_ssh_info printed
    sacct_stdout,       \* wait_for_job: sacct_result.stdout
    success,            \* main: what wait_for_job returned
    wfjReturned,        \* wait_for_job has returned
    exit_code,          \* what main returned (-1: it has not returned)
    exc,                \* the exception that ended the run
    sbatchCalls,        \* history: sbatch invocations
    gjnSqueueCalls,     \* history: squeue queries of get_job_nodes
    gjnScontrolCalls,   \* history: scontrol queries of get_job_nodes
    gjnSleeps,          \* history: sleeps get_job_nodes completed
    wfjSqueueCalls,     \* history: squeue queries of wait_for_job
    sacctCalls,         \* history: sacct queries
    wfjSleeps,          \* history: sleeps wait_for_job completed
    queriedIds,         \* history: the job ids given to squeue, scontrol, sacct
    interruptedAt,      \* history: where the last keyboard interrupt arrived
    firstRealAttempt,   \* history: the first attempt the scheduler reported nodes
    firstRealNodes,     \* history: the node expression it reported then
    wfjPolls,           \* history: for each poll of wait_for_job, whether squeue
                        \* listed the job
    fn                  \* the pure helper being exercised (not part of a run)

vars ==
    <<pc, config, cluster, clustr_str, resource_alloc_str, result, job_id,
      attempt, nodes, gjnExit, printed, sacct_stdout, success, wfjReturned,
      exit_code, exc, sbatchCalls, gjnSqueueCalls, gjnScontrolCalls, gjnSleeps,
      wfjSqueueCalls, sacctCalls, wfjSleeps, queriedIds, interruptedAt,
      firstRealAttempt, firstRealNodes, wfjPolls, fn>>

histVars ==
    <<sbatchCalls, gjnSqueueCalls, gjnScontrolCalls, gjnSleeps, wfjSqueueCalls,
      sacctCalls, wfjSleeps, queriedIds, interruptedAt, firstRealAttempt,
      firstRealNodes, wfjPolls>>

NoResult == [returncode |-> -1, stdout |-> <<>>]

NothingPrinted ==
    [kind |-> "none", nodes |-> None, first_node |-> <<>>, ssh_port |-> 0]

\* the Config of a run: the flags main reads
Configs ==
    [dry_run : BOOLEAN, blocking : BOOLEAN, no_ssh : BOOLEAN,
     g : 0..MaxGpus, m : {<<"A", "1", "0", "0">>, AllocText.NOGPU},
     cpus_per_node : {16}, nodes : {1}]

\* everything of a run but its Config and its position
RunFresh ==
    /\ cluster = "none"
    /\ clustr_str = None
    /\ resource_alloc_str = <<>>
    /\ result = NoResult
    /\ job_id = None
    /\ attempt = 0
    /\ nodes = None
    /\ gjnExit = "none"
    /\ printed = NothingPrinted
    /\ sacct_stdout = <<>>
    /\ success = FALSE
    /\ wfjReturned = FALSE
    /\ exit_code = -1
    /\ exc = "none"
    /\ sbatchCalls = 0
    /\ gjnSqueueCalls = 0
    /\ gjnScontrolCalls = 0
    /\ gjnSleeps = 0
    /\ wfjSqueueCalls = 0
    /\ sacctCalls = 0
    /\ wfjSleeps = 0
    /\ queriedIds = {}
    /\ interruptedAt = "none"
    /\ firstRealAttempt = 0
    /\ firstRealNodes = None
    /\ wfjPolls = <<>>

NoFn == [op |-> "none"]

Init ==
    /\ pc = "get_cluster"
    /\ config \in Configs
    /\ RunFresh
    /\ fn = NoFn

\* main returns code
Return(code) ==
    /\ pc' = "done"
    /\ exit_code' = code

\* an exception no handler catches ends the run
Raise(e) ==
    /\ pc' = "raised"
    /\ exc' = e

\* a bug ClusterFor could have: an unknown name falls back to a profile
ClusterFor_fallback(s) ==
    IF s = ClusterName.berzelius THEN "Berzelius" ELSE "Alvis"

\* get_cluster: the profile for the trimmed name, "unsupported" where it raises
ClusterFor(s) ==
    IF s = ClusterName.alvis THEN "Alvis"
    ELSE IF s = ClusterName.berzelius THEN "Berzelius"
    ELSE "unsupported"

\* get_cluster()
GetCluster ==
    /\ pc = "get_cluster"
    /\ \E out \in SacctmgrOutputs :
          LET s == trim_whitespace(Split(out, "\n")[1])
          IN  /\ clustr_str' = s
              /\ IF ClusterFor(s) = "unsupported"
                 THEN cluster' = cluster /\ Raise("ValueError")
                 ELSE cluster' = ClusterFor(s) /\ pc' = "wrap" /\ exc' = exc
    /\ UNCHANGED <<config, resource_alloc_str, result, job_id, attempt, nodes,
                   gjnExit, printed, sacct_stdout, success, wfjReturned,
                   exit_code, histVars, fn>>

\* wrap_in_sbatch(...): the profile's directives (the rest of the script does
\* not depend on the profile)
WrapInSbatch ==
    /\ pc = "wrap"
    /\ LET r == resource_alloc(cluster, config.g, config.m,
                               config.cpus_per_node, config.nodes)
       IN  IF r = ZeroDivisionError
           THEN Raise("ZeroDivisionError") /\ UNCHANGED resource_alloc_str
           ELSE resource_alloc_str' = r /\ pc' = "submit" /\ exc' = exc
    /\ UNCHANGED <<config, cluster, clustr_str, result, job_id, attempt, nodes,
                   gjnExit, printed, sacct_stdout, success, wfjReturned,
                   exit_code, histVars, fn>>

\* main with --dry-run: print the script and return 0
MainDryRun ==
    /\ pc = "submit"
    /\ config.dry_run
    /\ Return(0)
    /\ UNCHANGED <<config, cluster, clustr_str, resource_alloc_str, result,
                   job_id, attempt, nodes, gjnExit, printed, sacct_stdout,
                   success, wfjReturned, exc, histVars, fn>>

\* main without --dry-run: run sbatch, stop on failure, else extract the job id
\* and enter get_job_nodes
MainSbatch ==
    /\ pc = "submit"
    /\ ~config.dry_run
    /\ \E r \in SbatchResults :
          /\ result' = r
          /\ sbatchCalls' = sbatchCalls + 1
          /\ IF SubmitFailed(r)
             THEN Return(1) /\ UNCHANGED <<job_id, nodes, gjnExit>>
             ELSE IF ExtractJobId(r.stdout) = None
             THEN Return(1) /\ UNCHANGED <<job_id, nodes, gjnExit>>
             ELSE /\ job_id' = ExtractJobId(r.stdout)
                  /\ exit_code' = exit_code
                  /\ IF LoopContinues(0)
                     THEN pc' = "gjn_squeue" /\ UNCHANGED <<nodes, gjnExit>>
                     ELSE /\ pc' = "print_ssh"
                          /\ nodes' = None
                          /\ gjnExit' = "exhausted"
    /\ attempt' = 0
    /\ UNCHANGED <<config, cluster, clustr_str, resource_alloc_str, printed,
                   sacct_stdout, success, wfjReturned, exc, gjnSqueueCalls,
                   gjnScontrolCalls, gjnSleeps, wfjSqueueCalls, sacctCalls,
                   wfjSleeps, queriedIds, interruptedAt, firstRealAttempt,
                   firstRealNodes,
                   wfjPolls, fn>>

\* history: the scheduler's answer ans, given on the current attempt, reports
\* the node expression n (None: it reports none)
NoteReport(n) ==
    IF firstRealAttempt = 0 /\ n # None
    THEN firstRealAttempt' = attempt + 1 /\ firstRealNodes' = n
    ELSE UNCHANGED <<firstRealAttempt, firstRealNodes>>

\* get_job_nodes: the squeue query of an attempt
GjnSqueue ==
    /\ pc = "gjn_squeue"
    /\ \E r \in SqueueNodeResults :
          /\ NoteReport(SqueueReports(r))
          /\ IF SqueueNodes(r) # None
             THEN /\ nodes' = SqueueNodes(r)
                  /\ gjnExit' = "found"
                  /\ pc' = "print_ssh"
             ELSE /\ pc' = "gjn_scontrol"
                  /\ UNCHANGED <<nodes, gjnExit>>
    /\ gjnSqueueCalls' = gjnSqueueCalls + 1
    /\ queriedIds' = queriedIds \cup {job_id}
    /\ UNCHANGED <<config, cluster, clustr_str, resource_alloc_str, result,
                   job_id, attempt, printed, sacct_stdout, success, wfjReturned,
                   exit_code, exc, sbatchCalls, gjnScontrolCalls, gjnSleeps,
                   wfjSqueueCalls, sacctCalls, wfjSleeps, interruptedAt,
                   wfjPolls, fn>>

\* get_job_nodes: the scontrol query of an attempt
GjnScontrol ==
    /\ pc = "gjn_scontrol"
    /\ \E r \in ScontrolResults :
          /\ NoteReport(ScontrolReports(r))
          /\ IF ScontrolNodes(r) # None
             THEN /\ nodes' = ScontrolNodes(r)
                  /\ gjnExit' = "found"
                  /\ pc' = "print_ssh"
             ELSE /\ pc' = "gjn_sleep"
                  /\ UNCHANGED <<nodes, gjnExit>>
    /\ gjnScontrolCalls' = gjnScontrolCalls + 1
    /\ queriedIds' = queriedIds \cup {job_id}
    /\ UNCHANGED <<config, cluster, clustr_str, resource_alloc_str, result,
                   job_id, attempt, printed, sacct_stdout, success, wfjReturned,
                   exit_code, exc, sbatchCalls, gjnSqueueCalls, gjnSleeps,
                   wfjSqueueCalls, sacctCalls, wfjSleeps, interruptedAt,
                   wfjPolls, fn>>

\* get_job_nodes: time.sleep(10) runs to its end
GjnSleep ==
    /\ pc = "gjn_sleep"
    /\ gjnSleeps' = gjnSleeps + 1
    /\ pc' = "gjn_incr"
    /\ UNCHANGED <<config, cluster, clustr_str, resource_alloc_str, result,
                   job_id, attempt, nodes, gjnExit, printed, sacct_stdout,
                   success, wfjReturned, exit_code, exc, sbatchCalls,
                   gjnSqueueCalls, gjnScontrolCalls, wfjSqueueCalls, sacctCalls,
                   wfjSleeps, queriedIds, interruptedAt, firstRealAttempt,
                   firstRealNodes,
                   wfjPolls, fn>>

\* get_job_nodes: attempt += 1, the progress line, and the loop test: the next
\* attempt, or `return None` after the loop
GjnIncr ==
    /\ pc = "gjn_incr"
    /\ attempt' = attempt + 1
    /\ IF LoopContinues(attempt + 1)
       THEN pc' = "gjn_squeue" /\ UNCHANGED <<nodes, gjnExit>>
       ELSE pc' = "print_ssh" /\ nodes' = None /\ gjnExit' = "exhausted"
    /\ UNCHANGED <<config, cluster, clustr_str, resource_alloc_str, result,
                   job_id, printed, sacct_stdout, success, wfjReturned,
                   exit_code, exc, histVars, fn>>

\* print_ssh_info(job_id, nodes, config.no_ssh, cluster), then main's
\* `if config.blocking`
PrintSshInfo ==
    /\ pc = "print_ssh"
    /\ printed' = SshInfo(job_id, nodes, config.no_ssh, cluster)
    /\ IF config.blocking
       THEN pc' = "wfj_squeue" /\ exit_code' = exit_code
       ELSE Return(0)
    /\ UNCHANGED <<config, cluster, clustr_str, resource_alloc_str, result,
                   job_id, attempt, nodes, gjnExit, sacct_stdout, success,
                   wfjReturned, exc, histVars, fn>>

\* wait_for_job: a squeue poll; the job is listed for at most MaxWaitPolls polls
WfjSqueue ==
    /\ pc = "wfj_squeue"
    /\ \E r \in SqueueStateResults :
          /\ Strip(r.stdout) # <<>> => wfjSqueueCalls < MaxWaitPolls
          /\ pc' = IF JobLeftQueue(r) THEN "wfj_sacct" ELSE "wfj_sleep"
          /\ wfjPolls' = Append(wfjPolls, SqueueLists(r))
    /\ wfjSqueueCalls' = wfjSqueueCalls + 1
    /\ queriedIds' = queriedIds \cup {job_id}
    /\ UNCHANGED <<config, cluster, clustr_str, resource_alloc_str, result,
                   job_id, attempt, nodes, gjnExit, printed, sacct_stdout,
                   success, wfjReturned, exit_code, exc, sbatchCalls,
                   gjnSqueueCalls, gjnScontrolCalls, gjnSleeps, sacctCalls,
                   wfjSleeps, interruptedAt, firstRealAttempt, firstRealNodes,
                   fn>>

\* wait_for_job: time.sleep(10), then the loop test; a `while` whose test
\* fails ends the function, which then returns None, and main returns 1
WfjSleep ==
    /\ pc = "wfj_sleep"
    /\ wfjSleeps' = wfjSleeps + 1
    /\ IF WfjLoopContinues(wfjSqueueCalls)
       THEN /\ pc' = "wfj_squeue"
            /\ UNCHANGED <<success, wfjReturned, exit_code>>
       ELSE /\ success' = FALSE
            /\ wfjReturned' = TRUE
            /\ Return(WaitExitCode(FALSE))
    /\ UNCHANGED <<config, cluster, clustr_str, resource_alloc_str, result,
                   job_id, attempt, nodes, gjnExit, printed, sacct_stdout,
                   exc, sbatchCalls,
                   gjnSqueueCalls, gjnScontrolCalls, gjnSleeps, wfjSqueueCalls,
                   sacctCalls, queriedIds, interruptedAt, firstRealAttempt,
                   firstRealNodes,
                   wfjPolls, fn>>

\* wait_for_job: the sacct query and the result, then main's
\* `return 0 if success else 1`
WfjSacct ==
    /\ pc = "wfj_sacct"
    /\ \E out \in SacctOutputs :
          /\ sacct_stdout' = out
          /\ success' = JobSucceeded(out)
          /\ Return(WaitExitCode(JobSucceeded(out)))
    /\ wfjReturned' = TRUE
    /\ sacctCalls' = sacctCalls + 1
    /\ queriedIds' = queriedIds \cup {job_id}
    /\ UNCHANGED <<config, cluster, clustr_str, resource_alloc_str, result,
                   job_id, attempt, nodes, gjnExit, printed, exc, sbatchCalls,
                   gjnSqueueCalls, gjnScontrolCalls, gjnSleeps, wfjSqueueCalls,
                   wfjSleeps, interruptedAt, firstRealAttempt, firstRealNodes,
                   wfjPolls, fn>>

\* the positions inside get_job_nodes
GjnPcs == {"gjn_squeue", "gjn_scontrol", "gjn_sleep", "gjn_incr"}

\* get_job_nodes: the only statement inside `try: ... except KeyboardInterrupt`
InterruptCaught(at) == at = "gjn_sleep"

\* a keyboard interrupt (Ctrl-C) arrives: caught around get_job_nodes' sleep,
\* where it makes get_job_nodes return None; uncaught anywhere else
Interrupt ==
    /\ pc \notin {"done", "raised", "idle"}
    /\ interruptedAt' = pc
    /\ IF InterruptCaught(pc)
       THEN /\ nodes' = None
            /\ gjnExit' = "interrupt"
            /\ pc' = "print_ssh"
            /\ exc' = exc
       ELSE /\ Raise("KeyboardInterrupt")
            /\ gjnExit' = IF pc \in GjnPcs THEN "raised" ELSE gjnExit
            /\ nodes' = nodes
    /\ UNCHANGED <<config, cluster, clustr_str, resource_alloc_str, result,
                   job_id, attempt, printed, sacct_stdout, success, wfjReturned,
                   exit_code, sbatchCalls, gjnSqueueCalls, gjnScontrolCalls,
                   gjnSleeps, wfjSqueueCalls, sacctCalls, wfjSleeps, queriedIds,
                   firstRealAttempt, firstRealNodes,
                   wfjPolls, fn>>

Next ==
    \/ GetCluster
    \/ WrapInSbatch
    \/ MainDryRun
    \/ MainSbatch
    \/ GjnSqueue
    \/ GjnScontrol
    \/ GjnSleep
    \/ GjnIncr
    \/ PrintSshInfo
    \/ WfjSqueue
    \/ WfjSleep
    \/ WfjSacct
    \/ Interrupt

Spec == Init /\ [][Next]_vars

\* the positions inside wait_for_job
WfjPcs == {"wfj_squeue", "wfj_sleep", "wfj_sacct"}

\* the run under a scheduler that lets the process run: each step of the poll
\* loop of wait_for_job (the squeue call, the sleep, the sacct call) ends when
\* it can; a keyboard interrupt may or may not arrive
FairSpec ==
    /\ Spec
    /\ WF_vars(WfjSqueue)
    /\ WF_vars(WfjSleep)
    /\ WF_vars(WfjSacct)

(***************************************************************************)
(* Claims about the run of `submit`                                        *)
(***************************************************************************)

\* the text holds "Submitted batch job " followed by a digit
HasSubmittedLine(stdout) ==
    \E i \in 1..Len(stdout) :
        /\ i + Len(PollText.Submitted) <= Len(stdout)
        /\ SubSeq(stdout, i, i + Len(PollText.Submitted) - 1) = PollText.Submitted
        /\ stdout[i + Len(PollText.Submitted)] \in Digits

\* no scheduler tool has been queried
NoPolling ==
    /\ gjnSqueueCalls = 0
    /\ gjnScontrolCalls = 0
    /\ wfjSqueueCalls = 0
    /\ sacctCalls = 0
    /\ queriedIds = {}

\* sbatch was run and failed, or printed no job id
SubmissionRejected ==
    /\ sbatchCalls >= 1
    /\ result.returncode # 0 \/ ~HasSubmittedLine(result.stdout)

\* C1: in every run in which main returns, the exit code is 1 exactly when
\* sbatch exited non-zero, or sbatch exited zero and its output has no
\* "Submitted batch job <digits>", or --blocking is set and wait_for_job
\* returned failure; otherwise it is 0 (dry run, non-blocking submission,
\* successful wait, and also when get_job_nodes returned None).
C1_ExitCode ==
    /\ pc = "done" =>
          /\ exit_code \in {0, 1}
          /\ exit_code = 1 <=>
                \/ SubmissionRejected
                \/ config.blocking /\ wfjReturned /\ ~success
    /\ pc # "done" => exit_code = -1

\* C1 witness: a blocking run whose node discovery gave None and whose wait
\* reported failure has returned 1
C1_Witness ==
    /\ pc = "done"
    /\ exit_code = 1
    /\ config.blocking
    /\ gjnExit = "exhausted"
    /\ wfjReturned
    /\ ~success

\* C2: sbatch is invoked at most once in a run; when it exits non-zero or
\* prints no "Submitted batch job <digits>", main has stopped without a query
\* of squeue, scontrol or sacct and without printing SSH information; and
\* every query names the job id that follows "Submitted batch job " in the
\* output of that one sbatch.
C2_SubmitOnce ==
    /\ sbatchCalls <= 1
    /\ SubmissionRejected =>
          /\ pc = "done"
          /\ NoPolling
          /\ printed.kind = "none"
          /\ gjnExit = "none"
    /\ queriedIds # {} =>
          /\ sbatchCalls = 1
          /\ HasSubmittedLine(result.stdout)
          /\ queriedIds = {ExtractJobId(result.stdout)}
          /\ job_id = ExtractJobId(result.stdout)

\* C2 witness: sbatch exited zero without a job id in its output and main
\* stopped with 1
C2_Witness ==
    /\ sbatchCalls = 1
    /\ result.returncode = 0
    /\ ~HasSubmittedLine(result.stdout)
    /\ pc = "done"
    /\ exit_code = 1

\* C3: when the cluster name sacctmgr gave is neither "alvis" nor
\* "berzelius" the run has failed (ValueError) with sbatch never invoked and
\* no polling; and under --dry-run sbatch is never invoked and neither
\* polling loop is entered.
C3_NoJobAttempted ==
    /\ (clustr_str # None
        /\ clustr_str \notin {ClusterName.alvis, ClusterName.berzelius}) =>
          /\ pc = "raised"
          /\ exc = "ValueError"
          /\ sbatchCalls = 0
          /\ NoPolling
    /\ config.dry_run =>
          /\ sbatchCalls = 0
          /\ NoPolling
          /\ gjnExit = "none"
          /\ ~wfjReturned

\* C3 witness: sacctmgr named a cluster that is not supported
C3_Witness ==
    /\ clustr_str = <<"t", "e", "t", "r", "a", "l", "i", "t", "h">>
    /\ exc = "ValueError"

\* C4: get_job_nodes returns a node expression exactly when the scheduler
\* reported one, and if attempt k is the first on which it did, the loop
\* returned that expression after k-1 sleeps, with k <= 30.
C4_FirstReport ==
    /\ firstRealAttempt # 0 =>
          /\ gjnExit = "found"
          /\ nodes = firstRealNodes
          /\ gjnSleeps = firstRealAttempt - 1
          /\ gjnSqueueCalls = firstRealAttempt
          /\ firstRealAttempt <= 30
    /\ gjnExit = "found" => firstRealAttempt # 0

\* C4 witness: the node name came on the 3rd attempt, after 2 sleeps
C4_Witness ==
    /\ firstRealAttempt = 3
    /\ gjnSleeps = 2
    /\ nodes = <<"n", "1">>
    /\ gjnExit = "found"

\* C5: get_job_nodes makes at most 30 attempts (at most 30 squeue and 30
\* scontrol queries); when no attempt saw nodes and no interrupt arrived, it
\* has returned None after the 30th attempt, and it returns None that way
\* only then.
C5_RetryCeiling ==
    /\ attempt <= 30
    /\ gjnSqueueCalls <= 30
    /\ gjnScontrolCalls <= 30
    /\ gjnExit = "exhausted" =>
          /\ nodes = None
          /\ attempt = 30
          /\ gjnSqueueCalls = 30
          /\ gjnScontrolCalls = 30
          /\ gjnSleeps = 30
          /\ firstRealAttempt = 0
    /\ (pc \in {"print_ssh", "wfj_squeue", "wfj_sleep", "wfj_sacct", "done"}
        /\ job_id # None /\ firstRealAttempt = 0 /\ gjnExit # "interrupt") =>
          gjnExit = "exhausted"
    /\ gjnExit = "raised" => interruptedAt \in GjnPcs

\* C5 witness: the 30 attempts were used up and the run went on to its end
C5_Witness ==
    /\ gjnExit = "exhausted"
    /\ gjnSqueueCalls = 30
    /\ pc = "done"
    /\ exit_code = 0

\* C6: a keyboard interrupt that arrives anywhere in get_job_nodes makes it
\* return None, with no exception.  (The code catches it only around
\* time.sleep: during a squeue or scontrol query, or before the next attempt,
\* it ends the run.)
C6_InterruptClean ==
    interruptedAt \in GjnPcs =>
        /\ gjnExit = "interrupt"
        /\ nodes = None
        /\ exc = "none"

\* C7: once wait_for_job has returned, it returned failure exactly when the
\* text sacct printed reports FAILED or CANCELLED.  (The code tests
\* "COMPLETED" first, so a failed job whose extern step completed counts as
\* a success.)
C7_WaitResult ==
    wfjReturned =>
        (~success <=> \/ Contains(sacct_stdout, PollText.FAILED)
                      \/ Contains(sacct_stdout, PollText.CANCELLED))

\* C12: in the completion wait, sacct is queried at most once and only after
\* a poll in which squeue did not list the job; wait_for_job does not return
\* while the last poll listed the job; and when the job was listed in the
\* first n polls and not in poll n+1, the wait made exactly n+1 squeue queries
\* and n sleeps when it returns (it sleeps once after each poll that listed
\* the job, and polls again after each sleep).
C12_WaitPolls ==
    LET k == Len(wfjPolls)
        n == Cardinality({i \in 1..k : wfjPolls[i]})
    IN  /\ wfjSqueueCalls = k
        /\ sacctCalls <= 1
        /\ (sacctCalls = 1 \/ pc = "wfj_sacct") => k >= 1 /\ ~wfjPolls[k]
        /\ \A i \in 1..(k - 1) : wfjPolls[i]
        /\ pc = "wfj_sleep" => k >= 1 /\ wfjPolls[k] /\ wfjSleeps = k - 1
        /\ pc = "wfj_squeue" => wfjSleeps = k
        /\ wfjReturned =>
              /\ sacctCalls = 1
              /\ ~wfjPolls[k]
              /\ wfjSqueueCalls = n + 1
              /\ wfjSleeps = n

\* the job is listed in MaxWaitPolls polls, leaves, and the wait returns
C12_Witness ==
    /\ wfjReturned
    /\ Len(wfjPolls) = MaxWaitPolls + 1
    /\ \A i \in 1..MaxWaitPolls : wfjPolls[i]
    /\ wfjSleeps = MaxWaitPolls
    /\ sacctCalls = 1

\* C13: the completion wait has no ceiling.  Under FairSpec, a wait that has
\* begun returns a result once the job has left the live queue (here the job
\* leaves within MaxWaitPolls polls), unless a keyboard interrupt ends the
\* run; and while the last poll listed the job the wait goes on: it has not
\* returned, main has not returned and nothing was raised, however many polls
\* were made.
C13_WaitLive ==
    /\ [](pc \in WfjPcs => <>(wfjReturned \/ exc = "KeyboardInterrupt"))
    /\ []((wfjPolls # <<>> /\ wfjPolls[Len(wfjPolls)] /\ exc = "none") =>
            /\ pc \in {"wfj_sleep", "wfj_squeue"}
            /\ ~wfjReturned
            /\ exit_code = -1)

\* the wait goes on after MaxWaitPolls polls that listed the job
C13_Witness ==
    /\ pc = "wfj_squeue"
    /\ Len(wfjPolls) = MaxWaitPolls
    /\ \A i \in 1..MaxWaitPolls : wfjPolls[i]
    /\ wfjSleeps = MaxWaitPolls
    /\ ~wfjReturned

\* the first host a scheduler node expression names: the expression up to its
\* first comma outside brackets, a bracketed list "p[a-b,c]s" giving the host
\* "pas" of the first number of its first range
FirstHost(expr) ==
    LET inBrackets(i) ==
            Cardinality({j \in 1..(i - 1) : expr[j] = "["})
                > Cardinality({j \in 1..(i - 1) : expr[j] = "]"})
        commas == {i \in 1..Len(expr) : expr[i] = "," /\ ~inBrackets(i)}
        first == IF commas = {} THEN expr
                 ELSE SubSeq(expr, 1, SetMin(commas) - 1)
        open == {i \in 1..Len(first) : first[i] = "["}
        close == {i \in 1..Len(first) : first[i] = "]"}
    IN  IF open = {} \/ close = {} THEN first
        ELSE LET o == SetMin(open)
                 c == SetMin(close)
                 ends == {i \in (o + 1)..c : first[i] \in {"-", ",", "]"}}
             IN  SubSeq(first, 1, o - 1)
                 \o SubSeq(first, o + 1, SetMin(ends) - 1)
                 \o SubSeq(first, c + 1, Len(first))

\* C14: when node discovery returned a node expression and SSH is enabled,
\* the host of the printed SSH instruction is the first node of the
\* expression (single name, comma-separated list or compressed range), and the
\* Node(s) field is the expression unchanged.  (For "n[1-2],m1" the code
\* prints the host "n", the text before the bracket, not "n1".)
C14_FirstNode ==
    printed.kind = "ssh_box" =>
        /\ printed.nodes = nodes
        /\ printed.first_node = FirstHost(nodes)

\* C14, the part that holds: the Node(s) field is the expression unchanged, and
\* for an expression without brackets the host is its first node
C14_PlainNames ==
    printed.kind = "ssh_box" =>
        /\ printed.nodes = nodes
        /\ ~Contains(nodes, <<"[">>) => printed.first_node = FirstHost(nodes)

(***************************************************************************)
(* The pure helpers, each exercised on inputs drawn from a bounded set     *)
(***************************************************************************)

\* the defaults of Config
DefaultConfig ==
    [dry_run |-> FALSE, blocking |-> FALSE, no_ssh |-> FALSE, g |-> 1,
     m |-> <<"A", "1", "0", "0">>, cpus_per_node |-> 16, nodes |-> 1]

\* no run of main is going on
NoRun ==
    /\ pc = "idle"
    /\ config = DefaultConfig
    /\ RunFresh

runVars ==
    <<pc, config, cluster, clustr_str, resource_alloc_str, result, job_id,
      attempt, nodes, gjnExit, printed, sacct_stdout, success, wfjReturned,
      exit_code, exc, histVars>>

(***************************************************************************)
(* get_ssh_port and the port of the bootstrap fragment                     *)
(***************************************************************************)

\* the job numbers the scheduler may assign: around every multiple of 5000, so
\* below, at and above 55000 and 110000
JobNumbers ==
    {b * 5000 + d : b \in 0..MaxJobBlock, d \in {0, 1, 7, 4999}}

\* the scheduler assigns job number n: sbatch prints it in decimal, and the
\* job's shell gets it as SLURM_JOB_ID
PortInit ==
    /\ NoRun
    /\ \E n \in JobNumbers :
          fn = [op |-> "port", number |-> n, job_id |-> IntToStr(n),
                calls |-> 0, first |-> 0, last |-> 0, shell |-> 0]

\* print_ssh_info computes cluster.get_ssh_port(job_id) on Berzelius (once per
\* call of print_ssh_info; submit and info may both be run for a job)
PortCall ==
    /\ fn.op = "port"
    /\ fn.calls < 2
    /\ fn' = [fn EXCEPT !.calls = fn.calls + 1,
                        !.first = IF fn.calls = 0
                                  THEN get_ssh_port("Berzelius", fn.job_id)
                                  ELSE fn.first,
                        !.last = get_ssh_port("Berzelius", fn.job_id)]
    /\ UNCHANGED runVars

\* the job starts and its script computes SSH_PORT
PortShell ==
    /\ fn.op = "port"
    /\ fn.shell = 0
    /\ fn' = [fn EXCEPT !.shell = ssh_setup_SSH_PORT(fn.number)]
    /\ UNCHANGED runVars

PortNext ==
    \/ PortCall
    \/ PortShell

SpecPort == PortInit /\ [][PortNext]_vars

\* C8: for every job identifier the port get_ssh_port gives on Berzelius is
\* 10000 + (job number mod 55000), lies in [10000, 65000), is the same on
\* the next call, and is the port the bootstrap fragment binds.
C8_SshPort ==
    /\ fn.calls >= 1 =>
          /\ fn.first = 10000 + (fn.number % 55000)
          /\ fn.first >= 10000
          /\ fn.first < 65000
          /\ fn.last = fn.first
    /\ (fn.calls >= 1 /\ fn.shell # 0) => fn.shell = fn.first

\* C8 witness: job 109999 (one below twice 55000) gets port 64999, the last
\* of the range, from both calls and from the shell
C8_Witness ==
    /\ fn.number = 109999
    /\ fn.calls = 2
    /\ fn.last = 64999
    /\ fn.shell = 64999

(***************************************************************************)
(* format_in_box on bounded texts                                          *)
(***************************************************************************)

\* the characters of the texts: two letters, the blank and the line break
BoxAlphabet == {"a", "b", " ", "\n"}

\* a line of n characters without a blank, every 7th a "b"
LongLine(n) == [i \in 1..n |-> IF i % 7 = 0 THEN "b" ELSE "a"]

\* the texts and widths format_in_box is given: every short text at every
\* small width, and lines of 76, 77 and 150 characters at the default width
BoxInputs ==
    {[text |-> t, w |-> w] :
        t \in UNION {[1..k -> BoxAlphabet] : k \in 0..MaxTextLen},
        w \in 1..MaxWidth}
    \cup {[text |-> LongLine(n), w |-> DefaultLineWidth] : n \in {76, 77, 150}}

BoxInit ==
    /\ NoRun
    /\ \E in \in BoxInputs :
          fn = [op |-> "box", text |-> in.text, w |-> in.w, done |-> FALSE,
                out |-> <<>>]

\* print(format_in_box(text, w))
BoxCall ==
    /\ fn.op = "box"
    /\ ~fn.done
    /\ fn' = [fn EXCEPT !.done = TRUE, !.out = format_in_box(fn.text, fn.w)]
    /\ UNCHANGED runVars

BoxNext == BoxCall

SpecBox == BoxInit /\ [][BoxNext]_vars

\* the number of boxed lines for a line of length n at width w:
\* max(1, ceil(n / w))
RowsFor(n, w) == IF n = 0 THEN 1 ELSE (n + w - 1) \div w

\* the number of boxed lines for the first k of the lines ls
RECURSIVE RowsUpTo(_, _, _)
RowsUpTo(ls, k, w) ==
    IF k = 0 THEN 0 ELSE RowsUpTo(ls, k - 1, w) + RowsFor(Len(ls[k]), w)

\* out is the box of the lines ls at width w: every line of out has w + 4
\* characters, the first and the last are the borders, and line i of ls fills
\* RowsFor(Len(ls[i]), w) boxed lines whose contents, in order and without the
\* padding, are ls[i]
BoxedAs(ls, out, w) ==
    LET rows == Split(out, "\n")
    IN  /\ Len(rows) = 2 + RowsUpTo(ls, Len(ls), w)
        /\ \A r \in 1..Len(rows) : Len(rows[r]) = w + 4
        /\ rows[1] = <<BoxChar.tl>> \o Rep(BoxChar.h, w + 2) \o <<BoxChar.tr>>
        /\ rows[Len(rows)]
              = <<BoxChar.bl>> \o Rep(BoxChar.h, w + 2) \o <<BoxChar.br>>
        /\ \A i \in 1..Len(ls) :
              LET n      == RowsFor(Len(ls[i]), w)
                  start  == 1 + RowsUpTo(ls, i - 1, w)
                  padded == ls[i] \o Rep(" ", n * w - Len(ls[i]))
              IN  \A j \in 1..n :
                     rows[start + j]
                        = <<BoxChar.v, " ">>
                             \o SubSeq(padded, (j - 1) * w + 1, j * w)
                             \o <<" ", BoxChar.v>>

\* the lines of a text as str.splitlines gives them: a final line break ends
\* the last line and starts no new one
SplitLines(t) ==
    IF t # <<>> /\ t[Len(t)] = "\n"
    THEN Split(SubSeq(t, 1, Len(t) - 1), "\n")
    ELSE Split(t, "\n")

\* a text without the whitespace at its end
WithoutTrailing(t) ==
    LET keep == {i \in 1..Len(t) : t[i] \notin Whitespace}
    IN  IF keep = {} THEN <<>> ELSE SubSeq(t, 1, SetMax(keep))

\* C9 as claimed: the output of format_in_box(text, w) is the box of the
\* input lines of text, whichever way a line break or whitespace at the end
\* of the text is read (as a last empty line, as the end of the last line,
\* or as no part of the input).
C9_BoxOfInputLines ==
    (fn.op = "box" /\ fn.done) =>
        \/ BoxedAs(Split(fn.text, "\n"), fn.out, fn.w)
        \/ BoxedAs(SplitLines(fn.text), fn.out, fn.w)
        \/ BoxedAs(Split(WithoutTrailing(fn.text), "\n"), fn.out, fn.w)

\* C9 as amended: the output of format_in_box(text, w) is the box of the
\* lines of text.strip(): every output line has w + 4 characters, the first
\* and last are the borders, and each line of the stripped text of length L
\* fills exactly max(1, ceil(L / w)) boxed lines whose contents, padding
\* removed and concatenated, are that line.
C9_BoxOfStrippedLines ==
    (fn.op = "box" /\ fn.done) =>
        BoxedAs(Split(Strip(fn.text), "\n"), fn.out, fn.w)

\* C9 witness: a line of 150 characters at width 76 came out as two boxed
\* lines between the borders
C9_Witness ==
    /\ fn.op = "box"
    /\ fn.done
    /\ fn.w = 76
    /\ fn.text = LongLine(150)
    /\ Len(Split(fn.out, "\n")) = 4

(***************************************************************************)
(* resource_alloc on the device types of both clusters                     *)
(***************************************************************************)

\* the device types: the values of -m for submit.py ("A100" is the default,
\* the others are the memory tiers and the shared tier Berzelius.resource_alloc
\* looks for, "NOGPU" is the CPU-only one), and the DeviceType literals of the
\* two profiles of utils.py
AllocDevices(variant, cl) ==
    IF variant = "submit"
    THEN {<<"A", "1", "0", "0">>,
          <<"A", "1", "0", "0", ":", "8", "0", "G", "B">>,
          <<"A", "1", "0", "0", ":", "4", "0", "G", "B">>,
          AllocText.g10, AllocText.NOGPU}
    ELSE IF cl = "Alvis"
    THEN {<<"A", "1", "0", "0", ":", "4", "0", "G", "B">>,
          <<"A", "1", "0", "0", ":", "8", "0", "G", "B">>,
          <<"A", "4", "0">>, <<"V", "1", "0", "0">>, <<"T", "4">>,
          AllocText.cpu}
    ELSE {<<"A", "1", "0", "0">>, AllocText.d100_80, AllocText.d100_40,
          AllocText.dA100_10, AllocText.cpu}

AllocInputs ==
    {in \in [variant : {"submit", "utils"}, cluster : {"Alvis", "Berzelius"},
             device : UNION {AllocDevices(v, c) :
                               v \in {"submit", "utils"},
                               c \in {"Alvis", "Berzelius"}},
             g : 1..MaxAllocGpus, cpus : {16, 32}, nodes : 1..MaxAllocNodes] :
        in.device \in AllocDevices(in.variant, in.cluster)}

AllocInit ==
    /\ NoRun
    /\ \E in \in AllocInputs :
          fn = [op |-> "alloc", variant |-> in.variant, cluster |-> in.cluster,
                device |-> in.device, g |-> in.g, cpus |-> in.cpus,
                nodes |-> in.nodes, done |-> FALSE, out |-> <<>>]

\* cluster.resource_alloc(...) of submit.py or of utils.py
AllocCall ==
    /\ fn.op = "alloc"
    /\ ~fn.done
    /\ fn' = [fn EXCEPT
                !.done = TRUE,
                !.out =
                    IF fn.variant = "submit"
                    THEN resource_alloc(fn.cluster, fn.g, fn.device, fn.cpus,
                                        fn.nodes)
                    ELSE IF fn.cluster = "Alvis"
                    THEN utils_Alvis_resource_alloc(fn.g, fn.device, fn.cpus,
                                                    fn.nodes)
                    ELSE utils_Berzelius_resource_alloc(fn.g, fn.device,
                                                        fn.cpus, fn.nodes)]
    /\ UNCHANGED runVars

AllocNext == AllocCall

SpecAlloc == AllocInit /\ [][AllocNext]_vars

\* the line is a scheduler directive: it begins with "#SBATCH "
IsDirective(line) ==
    /\ Len(line) >= Len(AllocText.SBATCH)
    /\ SubSeq(line, 1, Len(AllocText.SBATCH)) = AllocText.SBATCH

\* C10: for both clusters and every device type, GPU, CPU and node count,
\* every line resource_alloc gives is a directive ("#SBATCH ..."), and for
\* the CPU-only device type there is a directive selecting CPU nodes
\* ("-C NOGPU" or "--partition=berzelius-cpu"), no "--gpus-per-node" and, on
\* Berzelius, no "--cpus-per-gpu".  (Berzelius gives the bare line
\* "--partition=berzelius-cpu" for the CPU-only device type.)
C10_Directives ==
    (fn.op = "alloc" /\ fn.done) =>
        LET lines == Split(fn.out, "\n")
        IN  /\ fn.out # ZeroDivisionError
            /\ \A i \in 1..Len(lines) : IsDirective(lines[i])
            /\ fn.device \in {AllocText.NOGPU, AllocText.cpu} =>
                  /\ \E i \in 1..Len(lines) :
                        /\ IsDirective(lines[i])
                        /\ \/ Contains(lines[i], AllocText.C_NOGPU)
                           \/ Contains(lines[i], AllocText.partition)
                  /\ ~Contains(fn.out, AllocText.gpus_per_node)
                  /\ fn.cluster = "Berzelius" =>
                        ~Contains(fn.out, AllocText.cpus_per_gpu)

(***************************************************************************)
(* wrap_in_sbatch on bounded configurations                                *)
(***************************************************************************)

\* the user's commands: one character, one word, two words
UserCommands ==
    {<<"a">>, <<"l", "s">>, <<"a", " ", "b">>}

\* the Configs main builds the script from
WrapInputs ==
    [command : UserCommands, shell_env : {<<>>, <<"E">>},
     interactive : BOOLEAN, no_ssh : BOOLEAN,
     cluster : {"Alvis", "Berzelius"},
     m : {<<"A", "1", "0", "0">>, AllocText.NOGPU},
     a : {<<"x">>}, time : {<<"1">>}, stdout_path : {<<"/", "o">>},
     g : {1}, cpus_per_node : {16}, nodes : {1}]

WrapInit ==
    /\ NoRun
    /\ \E in \in WrapInputs :
          fn = [op |-> "wrap", step |-> "start", config |-> in,
                command |-> <<>>, out |-> <<>>]

\* main: the command argument of wrap_in_sbatch
WrapJoin ==
    /\ fn.op = "wrap"
    /\ fn.step = "start"
    /\ fn' = [fn EXCEPT !.step = "joined",
                        !.command = JoinCommand(fn.config.command)]
    /\ UNCHANGED runVars

\* main: sbatch_command = wrap_in_sbatch(...)
WrapCall ==
    /\ fn.op = "wrap"
    /\ fn.step = "joined"
    /\ fn' = [fn EXCEPT
                !.step = "done",
                !.out = wrap_in_sbatch(fn.command, fn.config.a, fn.config.g,
                                       fn.config.m, fn.config.cpus_per_node,
                                       fn.config.no_ssh, fn.config.nodes,
                                       fn.config.time, fn.config.shell_env,
                                       fn.config.interactive,
                                       fn.config.stdout_path,
                                       fn.config.cluster)]
    /\ UNCHANGED runVars

WrapNext == WrapJoin \/ WrapCall

SpecWrap == WrapInit /\ [][WrapNext]_vars

\* a multiplexer session: the launcher up to the session name, and its end
SessionOpen ==
    <<"s", "c", "r", "i", "p", "t", " ", "-", "q", "e", "c", " ", "\"", "t",
      "m", "u", "x", " ", "n", "e", "w", "-", "s", "e", "s", "s", "i", "o",
      "n", " ", "-", "s", " ", "'", "$", "S", "L", "U", "R", "M", "_", "J",
      "O", "B", "_", "I", "D", "'">>

SessionClose == <<"\"", " ", "/", "d", "e", "v", "/", "n", "u", "l", "l">>

\* the inner command the batch mode is said to run
SaidInner(c) ==
    (IF c.shell_env = <<>> THEN c.command
     ELSE c.shell_env \o <<" ">> \o c.command)
    \o ScriptText.tee \o c.stdout_path \o ScriptText.jobOut

\* the final command line the script is said to have
SaidFinal(c) ==
    IF c.interactive THEN SessionOpen \o SessionClose
    ELSE SessionOpen \o <<" ", "'">> \o SaidInner(c) \o <<"'">> \o SessionClose

\* the sections of script, in order, are the interpreter line, the account,
\* the time, the resource directives, the output directive, the SSH fragment
\* and then one last line (the script ends with a line break)
SectionsInOrder(script, c) ==
    LET head == Join(<<ScriptText.shebang,
                       ScriptText.A \o c.a,
                       ScriptText.t \o c.time,
                       resource_alloc(c.cluster, c.g, c.m, c.cpus_per_node,
                                      c.nodes),
                       ScriptText.o \o c.stdout_path \o ScriptText.pctA,
                       ssh_setup(c.cluster, c.no_ssh)>>, <<"\n">>)
                \o <<"\n">>
        rest == SubSeq(script, Len(head) + 1, Len(script))
    IN  /\ Len(script) > Len(head)
        /\ SubSeq(script, 1, Len(head)) = head
        /\ rest[Len(rest)] = "\n"
        /\ ~Contains(SubSeq(rest, 1, Len(rest) - 1), <<"\n">>)

\* the last line of script
FinalLine(script) ==
    LET lines == Split(script, "\n")
    IN  lines[Len(lines) - 1]

\* C11: the script main builds ends with the command line, after the
\* interpreter line, account, time, resource directives, output directive and
\* SSH fragment in that order; in interactive mode that line is a session with
\* no inner command, in batch mode a session whose inner command is exactly
\* "<shell_env> <user_command> 2>&1 | tee <stdout_path>/$SLURM_JOB_ID.out",
\* the user command verbatim.  (The code runs "uv run" before it, and main
\* joins the characters of the command with blanks.)
C11_FinalCommand ==
    (fn.op = "wrap" /\ fn.step = "done") =>
        /\ SectionsInOrder(fn.out, fn.config)
        /\ FinalLine(fn.out) = SaidFinal(fn.config)

\* C11, the part that holds: the order of the sections, and the interactive
\* final line
C11_OrderAndInteractive ==
    (fn.op = "wrap" /\ fn.step = "done") =>
        /\ SectionsInOrder(fn.out, fn.config)
        /\ fn.config.interactive => FinalLine(fn.out) = SaidFinal(fn.config)

==========================================================================
